---- MODULE Spec2Model ----
(***************************************************************************)
(* Model of the media transcription pipeline of src/script.py:             *)
(* transcribe_media_file and the functions it calls                        *)
(* (extract_audio_from_video, convert_audio_to_wav, split_audio_file,      *)
(* transcribe_with_fallback, transcribe_audio_file).                       *)
(*                                                                         *)
(* One behaviour is the input loop of the script followed by one call of   *)
(* transcribe_media_file.  The environment (the user at the prompt, the    *)
(* transcoder, decoder/exporter, speech providers, os.unlink) is a         *)
(* nondeterministic choice of outcome at each external call.               *)
(*                                                                         *)
(* Python strings are sequences of one-character strings; a Python value   *)
(* is a record [tag, val] so that None and "" are different values.        *)
(***************************************************************************)
EXTENDS Integers, Sequences, FiniteSets, TLC

VARIABLES
    pc,                 \* position in transcribe_media_file and its callees
    filename_ext,       \* extension of the user's file, as typed
    is_file,            \* os.path.isfile(filename) at the prompt
    response,           \* the answer typed to the extension warning
    input_format,       \* channels and sample rate of the user's file
    wave_format,        \* channels and sample rate of the file at audio_path
    windows,            \* time windows [lo, hi) in ms of the chunks returned
    stagesCalled,       \* which of the two stage functions have been called
    size,               \* os.path.getsize of the waveform given to transcribe_audio_file
    duration,           \* len(audio) in ms of that waveform
    disk,               \* paths that exist on disk
    created,            \* temporary paths the pipeline has created
    unlinked,           \* paths removed by a completed os.unlink, in order
    unlinkFailed,       \* number of os.unlink calls that raised
    stage,              \* outcome of the extraction / conversion stage
    splitOutcome,       \* outcome of split_audio_file
    audio_path,         \* argument of transcribe_audio_file
    chunked,            \* TRUE in the file_size > max_size branch
    chunks,             \* list returned by split_audio_file
    idx,                \* loop index i of the chunk loop (0-based)
    full_transcription, \* accumulator of the chunk loop
    twfResult,          \* value returned by the last transcribe_with_fallback
    results,            \* values returned by transcribe_with_fallback, per attempt
    tafResult,          \* value returned by transcribe_audio_file
    ret,                \* value returned by transcribe_media_file
    calls               \* provider calls made so far, in order

\* the user's input and the properties of the file it names
inputVars == <<filename_ext, is_file, response, size, duration, input_format>>

vars == <<pc, inputVars, wave_format, windows, stagesCalled, disk, created,
          unlinked, unlinkFailed, stage, splitOutcome, audio_path, chunked,
          chunks, idx, full_transcription, twfResult, results, tafResult, ret,
          calls>>

----------------------------------------------------------------------------
(* Bounds *)

\* largest number of chunks a waveform is split into
MaxChunks == 3

----------------------------------------------------------------------------
(* Python values and strings *)

Str(s) == [tag |-> "str", val |-> s]
NoneVal == [tag |-> "None", val |-> <<>>]
Unset == [tag |-> "unset", val |-> <<>>]

EmptyStr == Str(<<>>)

\* bool(v) is False for None and for ""
Falsy(v) == v = NoneVal \/ v = EmptyStr

RECURSIVE LStrip(_)
LStrip(s) == IF s # <<>> /\ Head(s) = " " THEN LStrip(Tail(s)) ELSE s

RECURSIVE RStrip(_)
RStrip(s) ==
    IF s # <<>> /\ s[Len(s)] = " " THEN RStrip(SubSeq(s, 1, Len(s) - 1)) ELSE s

\* str.strip()
Strip(s) == RStrip(LStrip(s))

\* texts a provider can recognise
Texts == { <<"f", "o", "o">>, <<"b", "a", "r">>, <<"a", " ", "b">> }

----------------------------------------------------------------------------
(* Paths *)

InputPath == <<"input", 0>>
ExtractTmp == <<"extracted", 0>>
ConvertTmp == <<"converted", 0>>
ChunkPath(k) == <<"chunk", k>>
NoPath == <<"none", 0>>

----------------------------------------------------------------------------
(* Extensions *)

\* os.path.splitext(filename)[1] of the inputs considered
Extensions == {".mp4", ".MKV", ".mp3", ".flac", ".wav", ".WAV", ".ogg", ""}

\* str.lower() on the extensions and answers considered
Lower(e) ==
    CASE e = ".MKV" -> ".mkv"
      [] e = ".WAV" -> ".wav"
      [] e = "Y" -> "y"
      [] OTHER -> e

video_extensions == {".mp4", ".avi", ".mkv", ".mov", ".wmv"}

MEDIA_EXTENSIONS ==
    {".mp4", ".avi", ".mkv", ".mov", ".wmv", ".mp3", ".wav", ".flac", ".m4a", ".aac"}

\* "if file_ext in video_extensions", file_ext being the lower-cased extension
IsVideoCaseSensitive(e) == e \in video_extensions

IsVideo(e) == Lower(e) \in video_extensions

\* answers typed to "Continue anyway? (y/n)"; NotAsked when the question
\* was not put
Answers == {"y", "Y", "n", "yes", ""}
NotAsked == "<not asked>"

----------------------------------------------------------------------------
(* Audio formats *)

\* mono, 16 kHz: what ffmpeg (ac=1, ar=16000) and
\* set_frame_rate(16000).set_channels(1) write
Canonical == [channels |-> 1, rate |-> 16000]

NoFormat == [channels |-> 0, rate |-> 0]

\* formats of the user's file
Formats == {Canonical, [channels |-> 2, rate |-> 44100]}

----------------------------------------------------------------------------
(* Sizes and durations *)

max_size == 10 * 1024 * 1024

chunk_length_ms == 30000

Sizes == {max_size - 1, max_size, max_size + 1}

Durations == {1} \cup {k * (chunk_length_ms \div 2) : k \in 1 .. 2 * MaxChunks}

\* len(range(0, d, step))
RangeLen(d, step) == IF d <= 0 THEN 0 ELSE (d + step - 1) \div step

\* "if file_size > max_size"
OverThresholdInclusive(sz) == sz >= max_size

OverThreshold(sz) == sz > max_size

\* end of the slice audio[i:i + chunk_length_ms] of a segment of d ms: a
\* slice past the end stops at the end
SliceEndUnclamped(i, d) == i + chunk_length_ms

SliceEnd(i, d) == IF i + chunk_length_ms < d THEN i + chunk_length_ms ELSE d

\* the windows of "for i in range(0, len(audio), chunk_length_ms)"
ChunkWindows(d) ==
    [k \in 1 .. RangeLen(d, chunk_length_ms) |->
        <<(k - 1) * chunk_length_ms, SliceEnd((k - 1) * chunk_length_ms, d)>>]

----------------------------------------------------------------------------

\* a line typed at the prompt and the file it names: extension e, whether
\* the file exists f, the answer r to the warning (asked only for an
\* existing file with an uncommon extension) and, for an existing file, the
\* size s and duration d of the waveform transcribe_audio_file will see and
\* the format fmt of the file
InputChoice(e, f, r, s, d, fmt) ==
    /\ e \in Extensions
    /\ f \in BOOLEAN
    /\ r \in (IF f /\ Lower(e) \notin MEDIA_EXTENSIONS THEN Answers ELSE {NotAsked})
    /\ IF f
       THEN /\ s \in Sizes
            /\ d \in Durations
            /\ fmt \in Formats
            \* a waveform written by the pipeline is mono 16 kHz 16-bit PCM:
            \* over max_size it lasts several chunk lengths; a .wav input is
            \* used as it is and may be over max_size at any duration
            /\ (Lower(e) # ".wav" /\ s > max_size)
                  => RangeLen(d, chunk_length_ms) > 1
       ELSE s = 0 /\ d = 0 /\ fmt = NoFormat

\* before the first line is typed no file is named
NoExt == "<none>"

Init ==
    /\ pc = "prompt"
    /\ filename_ext = NoExt
    /\ is_file = FALSE
    /\ response = NotAsked
    /\ size = 0
    /\ duration = 0
    /\ input_format = NoFormat
    /\ wave_format = NoFormat
    /\ windows = <<>>
    /\ stagesCalled = {}
    /\ disk = {}
    /\ created = {}
    /\ unlinked = <<>>
    /\ unlinkFailed = 0
    /\ stage = "none"
    /\ splitOutcome = "none"
    /\ audio_path = NoPath
    /\ chunked = FALSE
    /\ chunks = <<>>
    /\ idx = 0
    /\ full_transcription = <<>>
    /\ twfResult = Unset
    /\ results = <<>>
    /\ tafResult = Unset
    /\ ret = Unset
    /\ calls = <<>>

----------------------------------------------------------------------------
(* Disk *)

\* outcomes of os.unlink(p): TRUE it removed p, FALSE it raised OSError
\* (a path that does not exist always raises)
UnlinkOutcomes(p) == IF p \in disk THEN {TRUE, FALSE} ELSE {FALSE}

\* the disk after os.unlink(p) removed p
RemovedNothing(p) == disk

Removed(p) == disk \ {p}

\* the waveform handed to transcribe_with_fallback
CurWave == IF chunked THEN chunks[idx + 1] ELSE audio_path

\* number of completed os.unlink calls on p
UnlinkCount(p) == Cardinality({i \in DOMAIN unlinked : unlinked[i] = p})

----------------------------------------------------------------------------
(* The input loop: "while True: filename = input(...) ..." *)

\* the iteration reaches "break": the file exists, and its extension is a
\* media extension or the answer to the warning, lower-cased, is "y"
AcceptsMissingFile(e, f, r) ==
    Lower(e) \in MEDIA_EXTENSIONS \/ Lower(r) = "y"

Accepts(e, f, r) ==
    /\ f
    /\ Lower(e) \in MEDIA_EXTENSIONS \/ Lower(r) = "y"

\* one iteration: a line is typed and tested; "continue" goes back to the
\* prompt, "break" goes on to transcribed_text = transcribe_media_file(filename)
InputLoop ==
    /\ pc = "prompt"
    /\ \E e \in Extensions, f \in BOOLEAN, r \in Answers \cup {NotAsked},
          s \in Sizes \cup {0}, d \in Durations \cup {0},
          fmt \in Formats \cup {NoFormat} :
         /\ InputChoice(e, f, r, s, d, fmt)
         /\ filename_ext' = e
         /\ is_file' = f
         /\ response' = r
         /\ size' = s
         /\ duration' = d
         /\ input_format' = fmt
         /\ disk' = IF f THEN {InputPath} ELSE {}
         /\ pc' = IF Accepts(e, f, r) THEN "tmf_start" ELSE "prompt"
    /\ UNCHANGED <<wave_format, windows, stagesCalled, created, unlinked,
                   unlinkFailed, stage, splitOutcome, audio_path, chunked,
                   chunks, idx, full_transcription, twfResult, results,
                   tafResult, ret, calls>>

----------------------------------------------------------------------------
(* transcribe_media_file, video branch: extract_audio_from_video *)

ExtractOutcomes == {"ok", "ffmpeg_error", "tempfile_error"}

ExtractAudioFromVideo ==
    /\ pc = "tmf_start"
    /\ IsVideo(filename_ext)
    /\ stagesCalled' = stagesCalled \cup {"extract"}
    /\ \E o \in ExtractOutcomes :
         /\ stage' = o
         /\ wave_format' = IF o = "ok" THEN Canonical ELSE wave_format
         \* NamedTemporaryFile(delete=False) leaves the file on disk
         /\ disk' = IF o = "tempfile_error" THEN disk ELSE disk \cup {ExtractTmp}
         /\ created' = IF o = "tempfile_error" THEN created ELSE created \cup {ExtractTmp}
         /\ IF o = "ok"
            THEN /\ audio_path' = ExtractTmp
                 /\ pc' = "taf_start"
                 /\ ret' = ret
            ELSE \* returns None; "if not temp_audio_path: return ''"
                 /\ audio_path' = audio_path
                 /\ pc' = "done"
                 /\ ret' = EmptyStr
    /\ UNCHANGED <<inputVars, windows, unlinked, unlinkFailed,
                   splitOutcome, chunked, chunks, idx, full_transcription,
                   twfResult, results, tafResult, calls>>

----------------------------------------------------------------------------
(* transcribe_media_file, audio branch: convert_audio_to_wav *)

ConvertOutcomes == {"ok", "decode_error", "tempfile_error", "export_error"}

ConvertAudioToWav ==
    /\ pc = "tmf_start"
    /\ ~IsVideo(filename_ext)
    /\ stagesCalled' = stagesCalled \cup {"convert"}
    /\ IF Lower(filename_ext) = ".wav"
       THEN \* already WAV: returned as is
            /\ stage' = "as_is"
            /\ wave_format' = input_format
            /\ audio_path' = InputPath
            /\ pc' = "taf_start"
            /\ UNCHANGED <<disk, created, ret>>
       ELSE \E o \in ConvertOutcomes :
            /\ stage' = o
            /\ wave_format' = IF o = "ok" THEN Canonical ELSE wave_format
            \* the temporary file is created after decoding, before export
            /\ disk' = IF o \in {"ok", "export_error"}
                       THEN disk \cup {ConvertTmp} ELSE disk
            /\ created' = IF o \in {"ok", "export_error"}
                          THEN created \cup {ConvertTmp} ELSE created
            /\ IF o = "ok"
               THEN /\ audio_path' = ConvertTmp
                    /\ pc' = "taf_start"
                    /\ ret' = ret
               ELSE \* returns None; "if not wav_path: return ''"
                    /\ audio_path' = audio_path
                    /\ pc' = "done"
                    /\ ret' = EmptyStr
    /\ UNCHANGED <<inputVars, windows, unlinked, unlinkFailed,
                   splitOutcome, chunked, chunks, idx, full_transcription,
                   twfResult, results, tafResult, calls>>

----------------------------------------------------------------------------
(* transcribe_audio_file: size test *)

TranscribeAudioFileStart ==
    /\ pc = "taf_start"
    /\ chunked' = OverThreshold(size)
    /\ pc' = IF OverThreshold(size) THEN "split" ELSE "google"
    /\ UNCHANGED <<inputVars, wave_format, windows, stagesCalled, disk, created, unlinked,
                   unlinkFailed, stage, splitOutcome, audio_path, chunks, idx,
                   full_transcription, twfResult, results, tafResult, ret,
                   calls>>

----------------------------------------------------------------------------
(* split_audio_file, and the loop set-up of transcribe_audio_file *)

\* chunk paths 0 .. n-1 as a list
ChunkList(n) == [k \in 1 .. n |-> ChunkPath(k - 1)]

\* outcomes: "ok", "load_error", or <<"export_error", k>>: exporting the
\* k-th chunk raised, after its temporary file was created
SplitOutcomes(n) ==
    {<<"ok", 0>>, <<"load_error", 0>>} \cup {<<"export_error", k>> : k \in 0 .. n - 1}

\* chunk files on disk after split_audio_file ended with outcome o
SplitFiles(n, o) ==
    CASE o[1] = "ok" -> {ChunkPath(k) : k \in 0 .. n - 1}
      [] o[1] = "load_error" -> {}
      [] OTHER -> {ChunkPath(k) : k \in 0 .. o[2]}

\* the list split_audio_file returns: the chunk paths, or
\* "return [audio_path]" when splitting fails
SplitResultEmptyOnFailure(n, o) == IF o[1] = "ok" THEN ChunkList(n) ELSE <<>>

SplitResult(n, o) == IF o[1] = "ok" THEN ChunkList(n) ELSE <<audio_path>>

SplitAudioFile ==
    /\ pc = "split"
    /\ LET n == RangeLen(duration, chunk_length_ms) IN
       \E o \in SplitOutcomes(n) :
         /\ splitOutcome' = o[1]
         /\ disk' = disk \cup SplitFiles(n, o)
         /\ created' = created \cup SplitFiles(n, o)
         /\ chunks' = SplitResult(n, o)
         /\ windows' = IF o[1] = "ok" THEN ChunkWindows(duration) ELSE <<>>
         /\ full_transcription' = <<>>
         /\ idx' = 0
         \* an empty list: the loop body never runs
         /\ IF Len(SplitResult(n, o)) = 0
            THEN /\ tafResult' = Str(Strip(<<>>))
                 /\ pc' = "finally"
            ELSE /\ tafResult' = tafResult
                 /\ pc' = "google"
    /\ UNCHANGED <<inputVars, wave_format, stagesCalled, unlinked,
                   unlinkFailed, stage, audio_path, chunked, twfResult,
                   results, ret, calls>>

----------------------------------------------------------------------------
(* transcribe_with_fallback *)

ProviderOutcomes == {NoneVal} \cup {Str(t) : t \in Texts}

Call(path, provider, outcome) ==
    [path |-> path, provider |-> provider, ok |-> outcome # NoneVal,
     text |-> outcome.val]

\* after the first provider: "return text" on success, fall through to the
\* second provider when it raised
GoogleNextAlwaysCloud(outcome) == "cloud"

GoogleNext(outcome) == IF outcome # NoneVal THEN "twf_return" ELSE "cloud"

\* Google Speech Recognition (first provider)
CallGoogle ==
    /\ pc = "google"
    /\ \E o \in ProviderOutcomes :
         /\ calls' = Append(calls, Call(CurWave, "google", o))
         /\ pc' = GoogleNext(o)
         /\ twfResult' = IF o # NoneVal THEN o ELSE Unset
         /\ results' = IF o # NoneVal THEN Append(results, o) ELSE results
    /\ UNCHANGED <<inputVars, wave_format, windows, stagesCalled, disk, created, unlinked,
                   unlinkFailed, stage, splitOutcome, audio_path, chunked,
                   chunks, idx, full_transcription, tafResult, ret>>

\* after the second provider: the function returns, whatever the outcome
CloudNextRetryOnce(outcome) ==
    IF outcome = NoneVal /\ Len(calls) < 2 THEN "google" ELSE "twf_return"

CloudNext(outcome) == "twf_return"

\* Google Cloud Speech (second provider); when it raises too the function
\* falls off its end and returns None
CallCloud ==
    /\ pc = "cloud"
    /\ \E o \in ProviderOutcomes :
         /\ calls' = Append(calls, Call(CurWave, "cloud", o))
         /\ pc' = CloudNext(o)
         /\ twfResult' = IF CloudNext(o) = "twf_return" THEN o ELSE Unset
         /\ results' = IF CloudNext(o) = "twf_return"
                       THEN Append(results, o) ELSE results
    /\ UNCHANGED <<inputVars, wave_format, windows, stagesCalled, disk, created, unlinked,
                   unlinkFailed, stage, splitOutcome, audio_path, chunked,
                   chunks, idx, full_transcription, tafResult, ret>>

----------------------------------------------------------------------------
(* transcribe_audio_file: body of the chunk loop, after                   *)
(* transcribe_with_fallback returned for chunk idx                        *)

\* leaving the loop body normally: next chunk, or return the stripped text
Advance(ft) ==
    /\ idx' = idx + 1
    /\ IF idx + 1 = Len(chunks)
       THEN /\ tafResult' = Str(Strip(ft))
            /\ pc' = "finally"
       ELSE /\ tafResult' = tafResult
            /\ pc' = "google"

\* an exception inside the try block: "except Exception: return ''"
TafExcept ==
    /\ tafResult' = EmptyStr
    /\ pc' = "finally"
    /\ idx' = idx

ChunkLoopBody ==
    /\ pc = "twf_return"
    /\ chunked
    /\ LET chunk_path == chunks[idx + 1] IN
       IF twfResult.tag # "str"
       THEN \* " " + None raises TypeError
            /\ TafExcept
            /\ UNCHANGED <<full_transcription, disk, unlinked, unlinkFailed>>
       ELSE LET ft == full_transcription \o <<" ">> \o twfResult.val IN
            /\ full_transcription' = ft
            /\ IF chunk_path # audio_path
               THEN \E ok \in UnlinkOutcomes(chunk_path) :
                      IF ok
                      THEN /\ disk' = Removed(chunk_path)
                           /\ unlinked' = Append(unlinked, chunk_path)
                           /\ unlinkFailed' = unlinkFailed
                           /\ Advance(ft)
                      ELSE /\ unlinkFailed' = unlinkFailed + 1
                           /\ TafExcept
                           /\ UNCHANGED <<disk, unlinked>>
               ELSE /\ Advance(ft)
                    /\ UNCHANGED <<disk, unlinked, unlinkFailed>>
    /\ UNCHANGED <<inputVars, wave_format, windows, stagesCalled, created, stage, splitOutcome,
                   audio_path, chunked, chunks, twfResult, results, ret, calls>>

\* transcribe_audio_file, else branch: "return transcribe_with_fallback(audio_path)"
SingleReturn ==
    /\ pc = "twf_return"
    /\ ~chunked
    /\ tafResult' = twfResult
    /\ pc' = "finally"
    /\ UNCHANGED <<inputVars, wave_format, windows, stagesCalled, disk, created, unlinked,
                   unlinkFailed, stage, splitOutcome, audio_path, chunked,
                   chunks, idx, full_transcription, twfResult, results, ret,
                   calls>>

----------------------------------------------------------------------------
(* transcribe_media_file: the finally blocks and the return *)

\* the condition guarding os.unlink in the finally block of each branch
FinallyUnlinksNoGuard == audio_path \in disk

FinallyUnlinks ==
    IF IsVideo(filename_ext)
    THEN audio_path \in disk
    ELSE audio_path # InputPath /\ audio_path \in disk

Finally ==
    /\ pc = "finally"
    /\ IF FinallyUnlinks
       THEN \E ok \in UnlinkOutcomes(audio_path) :
              IF ok
              THEN /\ disk' = Removed(audio_path)
                   /\ unlinked' = Append(unlinked, audio_path)
                   /\ unlinkFailed' = unlinkFailed
                   /\ ret' = tafResult
                   /\ pc' = "done"
              ELSE \* the exception leaves transcribe_media_file
                   /\ unlinkFailed' = unlinkFailed + 1
                   /\ pc' = "raised"
                   /\ UNCHANGED <<disk, unlinked, ret>>
       ELSE /\ ret' = tafResult
            /\ pc' = "done"
            /\ UNCHANGED <<disk, unlinked, unlinkFailed>>
    /\ UNCHANGED <<inputVars, wave_format, windows, stagesCalled, created, stage, splitOutcome,
                   audio_path, chunked, chunks, idx, full_transcription,
                   twfResult, results, tafResult, calls>>

----------------------------------------------------------------------------

Next ==
    \/ InputLoop
    \/ ExtractAudioFromVideo
    \/ ConvertAudioToWav
    \/ TranscribeAudioFileStart
    \/ SplitAudioFile
    \/ CallGoogle
    \/ CallCloud
    \/ ChunkLoopBody
    \/ SingleReturn
    \/ Finally

Spec == Init /\ [][Next]_vars

----------------------------------------------------------------------------
(* Type invariant *)

Values == {NoneVal, Unset} \cup {Str(s) : s \in Texts \cup {<<>>}}

TypeOK ==
    /\ pc \in {"prompt", "tmf_start", "taf_start", "split", "google", "cloud",
               "twf_return", "finally", "done", "raised"}
    /\ filename_ext \in Extensions \cup {NoExt}
    /\ size \in Sizes \cup {0}
    /\ duration \in Durations \cup {0}
    /\ is_file \in BOOLEAN
    /\ response \in Answers \cup {NotAsked}
    /\ input_format \in Formats \cup {NoFormat}
    /\ wave_format \in Formats \cup {NoFormat}
    /\ stagesCalled \subseteq {"extract", "convert"}
    /\ Len(windows) <= MaxChunks
    /\ created \subseteq {ExtractTmp, ConvertTmp} \cup {ChunkPath(k) : k \in 0 .. MaxChunks - 1}
    /\ disk \subseteq created \cup {InputPath}
    /\ Len(chunks) <= MaxChunks
    /\ idx \in 0 .. MaxChunks
    /\ twfResult \in Values
    /\ Len(calls) <= 2 * MaxChunks

----------------------------------------------------------------------------
(* Helpers for the properties *)

\* " ".join(ts)
RECURSIVE JoinSp(_)
JoinSp(ts) ==
    IF ts = <<>> THEN <<>>
    ELSE IF Len(ts) = 1 THEN ts[1]
    ELSE ts[1] \o <<" ">> \o JoinSp(Tail(ts))

\* t occurs in s
IsSubstring(t, s) ==
    \E i \in 0 .. Len(s) - Len(t) : SubSeq(s, i + 1, i + Len(t)) = t

\* the texts of the provider-chain attempts made so far
ResultTexts == [k \in DOMAIN results |-> results[k].val]

\* transcribe_audio_file has returned
TafReturned == pc \in {"finally", "done", "raised"}

\* both providers were called on waveform w and both failed
BothFailed(w) ==
    /\ \E j \in DOMAIN calls :
         calls[j].path = w /\ calls[j].provider = "google" /\ ~calls[j].ok
    /\ \E j \in DOMAIN calls :
         calls[j].path = w /\ calls[j].provider = "cloud" /\ ~calls[j].ok

\* every chunk has had its provider-chain attempt
AllAttempted == Len(results) = (IF chunked THEN Len(chunks) ELSE 1)

\* the value transcribe_media_file returns when a stage failed or
\* transcribe_audio_file caught an exception
ErrorReturn == EmptyStr

----------------------------------------------------------------------------
(* C1 *)

\* C1: when transcribe_media_file has returned, every temporary file the
\* pipeline created is gone from disk and was deleted exactly once.
C1_EveryTempReleasedOnce ==
    pc = "done" =>
        \A p \in created : p \notin disk /\ UnlinkCount(p) = 1

----------------------------------------------------------------------------
(* C2 *)

\* C2: in the chunked path, when every provider failed for some chunk, the
\* later chunks are still attempted and the value returned by
\* transcribe_audio_file contains the text of every chunk that succeeded.
C2_ExhaustedChunkRecovered ==
    (TafReturned /\ chunked /\ \E k \in DOMAIN results : results[k] = NoneVal)
        => /\ Len(results) = Len(chunks)
           /\ tafResult.tag = "str"
           /\ \A k \in DOMAIN results :
                results[k].tag = "str" => IsSubstring(results[k].val, tafResult.val)

----------------------------------------------------------------------------
(* C3 *)

\* C3: when both providers failed on a waveform, transcribe_with_fallback
\* returns the empty string.
C3_ExhaustionReturnsEmptyString ==
    (pc = "twf_return" /\ BothFailed(CurWave)) => twfResult = EmptyStr

----------------------------------------------------------------------------
(* C4 *)

\* C4: when extract_audio_from_video failed, transcribe_media_file returns
\* its failure value, no provider was called and the temporary WAV file of
\* the extraction does not exist.
C4_ExtractionFailureLeavesNoTemp ==
    (pc = "done" /\ IsVideo(filename_ext)
                 /\ stage \in {"ffmpeg_error", "tempfile_error"})
        => /\ ret = ErrorReturn
           /\ calls = <<>>
           /\ ExtractTmp \notin disk

----------------------------------------------------------------------------
(* C5 *)

\* C5: when convert_audio_to_wav failed on decoding or on exporting, the
\* run ends with the failure value and the temporary WAV file of the
\* conversion does not exist.
C5_ConversionFailureLeavesNoTemp ==
    stage \in {"decode_error", "export_error"}
        => /\ pc = "done"
           /\ ret = ErrorReturn
           /\ ConvertTmp \notin disk

----------------------------------------------------------------------------
(* C6 *)

\* C6: in the chunked path, when every chunk got a text from some provider,
\* transcribe_audio_file returns the chunk texts in index order joined by
\* one space, stripped.
C6_TextsJoinedInIndexOrder ==
    (TafReturned /\ chunked /\ Len(results) = Len(chunks)
                 /\ \A k \in DOMAIN results : results[k].tag = "str")
        => tafResult = Str(Strip(JoinSp(ResultTexts)))

----------------------------------------------------------------------------
(* C7 *)

\* index of the first successful provider call on waveform w
FirstOk(w) ==
    CHOOSE j \in DOMAIN calls :
        /\ calls[j].path = w /\ calls[j].ok
        /\ \A i \in DOMAIN calls : (calls[i].path = w /\ calls[i].ok) => j <= i

\* C7: the second provider (Google Cloud Speech) is called only directly
\* after the first (Google Speech Recognition) failed on the same waveform;
\* the first call on a waveform is to the first provider; and
\* transcribe_with_fallback returns the text of the first provider that
\* succeeded, so a failure of the first is not seen when the second succeeds.
C7_FallbackOrder ==
    /\ \A j \in DOMAIN calls :
         calls[j].provider = "cloud" =>
            /\ j > 1
            /\ calls[j - 1].provider = "google"
            /\ calls[j - 1].path = calls[j].path
            /\ ~calls[j - 1].ok
    /\ \A j \in DOMAIN calls :
         calls[j].provider = "google" =>
            \A i \in 1 .. j - 1 : calls[i].path # calls[j].path
    /\ (pc = "twf_return" /\ \E j \in DOMAIN calls : calls[j].path = CurWave /\ calls[j].ok)
         => twfResult = Str(calls[FirstOk(CurWave)].text)

\* the first provider failed and the second returned a text
C7_Witness ==
    /\ pc = "twf_return"
    /\ Len(calls) >= 2
    /\ calls[Len(calls)].provider = "cloud"
    /\ calls[Len(calls)].ok
    /\ calls[Len(calls)].path = CurWave
    /\ ~calls[Len(calls) - 1].ok
    /\ twfResult = Str(calls[Len(calls)].text)

----------------------------------------------------------------------------
(* C8 *)

\* C8: the step that follows the provider-chain attempt on a chunk deletes
\* that chunk's temporary file, whatever the attempt returned (text of the
\* first provider, text of the second, or None): after the step the file is
\* gone, or os.unlink was called on it and raised.
C8_ChunkDeletedAfterAttempt ==
    [][(pc = "twf_return" /\ chunked /\ chunks[idx + 1] # audio_path)
          => \/ chunks[idx + 1] \notin disk'
             \/ unlinkFailed' = unlinkFailed + 1]_vars

----------------------------------------------------------------------------
(* C9 *)

\* C9: a failing os.unlink never makes an exception leave
\* transcribe_media_file, and when every chunk got its text the returned
\* transcript is the joined text although a deletion failed.
C9_UnlinkFailureSwallowed ==
    /\ pc # "raised"
    /\ (pc = "done" /\ unlinkFailed > 0 /\ chunked /\ Len(results) = Len(chunks)
                    /\ \A k \in DOMAIN results : results[k].tag = "str")
         => ret = Str(Strip(JoinSp(ResultTexts)))

----------------------------------------------------------------------------
(* C10 *)

\* a run in which the stage, the splitting and every deletion succeeded,
\* every chunk was attempted and no provider recognised anything
NoSpeechSuccess ==
    /\ stage \in {"ok", "as_is"}
    /\ splitOutcome \in {"none", "ok"}
    /\ unlinkFailed = 0
    /\ AllAttempted
    /\ \A k \in DOMAIN results : results[k] = NoneVal

\* C10: a run that succeeded but recognised no speech does not return the
\* value that transcribe_media_file returns for a pipeline error.
C10_NoSpeechDistinctFromError ==
    (pc = "done" /\ NoSpeechSuccess) => ret # ErrorReturn

----------------------------------------------------------------------------
(* C11 *)

\* C11: from the call of transcribe_media_file on, the user's input file
\* exists on disk and no os.unlink has removed it.
C11_InputNeverDeleted ==
    /\ pc # "prompt" => InputPath \in disk
    /\ \A i \in DOMAIN unlinked : unlinked[i] # InputPath

\* a .wav input over the threshold whose splitting failed: the input path was
\* the waveform and the only chunk, and the call has returned
C11_Witness ==
    /\ pc = "done"
    /\ Lower(filename_ext) = ".wav"
    /\ chunked
    /\ splitOutcome \in {"load_error", "export_error"}
    /\ chunks = <<InputPath>>
    /\ calls # <<>>
    /\ InputPath \in disk

----------------------------------------------------------------------------
(* C12 *)

\* C12: while a provider call on chunk k is pending, no temporary file of
\* another chunk exists.
C12_NoOtherChunkHeld ==
    (pc \in {"google", "cloud"} /\ chunked /\ splitOutcome = "ok")
        => \A k \in 0 .. MaxChunks - 1 :
              ChunkPath(k) # CurWave => ChunkPath(k) \notin disk

----------------------------------------------------------------------------
(* C13 *)

\* a chunk file has been created
SomeChunkFile == \E k \in 0 .. MaxChunks - 1 : ChunkPath(k) \in created

\* C13: once transcribe_audio_file has passed its size test, split_audio_file
\* is (or is about to be) called exactly when the file size is strictly
\* greater than 10 MiB; at or below 10 MiB no chunk file is created, the
\* provider chain runs once, on the whole waveform, and its value is what
\* transcribe_audio_file returns.
C13_ChunkerIffOverThreshold ==
    /\ splitOutcome # "none" => size > 10 * 1024 * 1024
    /\ (pc \notin {"prompt", "tmf_start", "taf_start"} /\ stage \in {"ok", "as_is"})
         => IF size > 10 * 1024 * 1024
            THEN /\ chunked
                 /\ pc # "split" => splitOutcome # "none"
            ELSE /\ ~chunked
                 /\ splitOutcome = "none"
                 /\ ~SomeChunkFile
                 /\ Len(results) <= 1
                 /\ \A j \in DOMAIN calls : calls[j].path = audio_path
                 /\ TafReturned => (Len(results) = 1 /\ tafResult = results[1])

\* a file of exactly 10 MiB was transcribed in one piece
C13_Witness ==
    /\ pc = "done"
    /\ size = 10 * 1024 * 1024
    /\ ~SomeChunkFile
    /\ Len(results) = 1
    /\ ret.tag = "str"
    /\ ret = results[1]

----------------------------------------------------------------------------
(* C14 *)

\* C14: on the audio path, whenever a provider call is pending the waveform
\* handed to transcribe_with_fallback (the file at audio_path, or a chunk cut
\* from it, which keeps its format) is mono 16 kHz.
C14_ProviderGetsCanonical ==
    (pc \in {"google", "cloud"} /\ "convert" \in stagesCalled)
        => wave_format = [channels |-> 1, rate |-> 16000]

----------------------------------------------------------------------------
(* C15 *)

\* C15: when split_audio_file failed (on loading, or on exporting some
\* chunk), the list it returned is the single original path, that file is
\* on disk until transcribe_audio_file has returned, the next step is the
\* provider chain on it, and every provider call is made on it.
C15_SplitFailureFallsBack ==
    splitOutcome \in {"load_error", "export_error"}
        => /\ chunks = <<audio_path>>
           /\ pc \in {"google", "cloud", "twf_return", "finally"} => audio_path \in disk
           /\ pc \in {"google", "cloud", "twf_return", "finally", "done", "raised"}
           /\ pc # "google" => calls # <<>>
           /\ \A j \in DOMAIN calls : calls[j].path = audio_path

\* exporting a chunk failed, and the run still returned a recognised text
C15_Witness ==
    /\ splitOutcome = "export_error"
    /\ pc = "done"
    /\ ret.tag = "str"
    /\ ret.val # <<>>
    /\ Len(calls) >= 1

----------------------------------------------------------------------------
(* C16 *)

\* ceil(d / l) for positive l
CeilDiv(d, l) == (d \div l) + (IF d % l = 0 THEN 0 ELSE 1)

\* C16: after a successful split_audio_file of a waveform of duration D the
\* returned chunks are, in list order, the windows [0,L), [L,2L), ...: the
\* first starts at 0, each starts where the previous one ends, all but the
\* last are L long, the last is non-empty and at most L long and ends at D,
\* and there are ceil(D / L) of them.
C16_WindowsCoverExactly ==
    splitOutcome = "ok" =>
        LET n == Len(windows) IN
        /\ n = CeilDiv(duration, chunk_length_ms)
        /\ Len(chunks) = n
        /\ n >= 1 => (windows[1][1] = 0 /\ windows[n][2] = duration)
        /\ \A k \in 1 .. n - 1 :
              /\ windows[k][2] = windows[k + 1][1]
              /\ windows[k][2] - windows[k][1] = chunk_length_ms
        /\ \A k \in 1 .. n :
              /\ windows[k][1] < windows[k][2]
              /\ windows[k][2] - windows[k][1] <= chunk_length_ms

\* a split into several chunks whose last one is shorter than L
C16_Witness ==
    /\ splitOutcome = "ok"
    /\ Len(windows) >= 2
    /\ windows[Len(windows)][2] - windows[Len(windows)][1] < chunk_length_ms
    /\ windows[Len(windows)][2] = duration

----------------------------------------------------------------------------
(* C17 *)

\* position in the list chunks of the waveform a provider call was made on
ChunkIndexOf(p) == CHOOSE m \in DOMAIN chunks : chunks[m] = p

\* C17: whenever a provider call on chunk idx is pending, every earlier
\* chunk has had its provider-chain attempt completed and its temporary
\* file deleted; and the provider calls are made in chunk order.
C17_StrictlySequential ==
    /\ (pc \in {"google", "cloud"} /\ chunked)
         => /\ Len(results) = idx
            /\ \A k \in 1 .. idx :
                  /\ \E j \in DOMAIN calls : calls[j].path = chunks[k]
                  /\ chunks[k] \notin disk
                  /\ UnlinkCount(chunks[k]) = 1
    /\ (chunked /\ chunks # <<>>)
         => \A i, j \in DOMAIN calls :
               i < j => ChunkIndexOf(calls[i].path) <= ChunkIndexOf(calls[j].path)

\* the first provider is about to be called on the second chunk
C17_Witness ==
    /\ pc = "google"
    /\ chunked
    /\ splitOutcome = "ok"
    /\ idx = 1
    /\ Len(chunks) >= 2
    /\ chunks[1] \notin disk
    /\ chunks[2] \in disk

----------------------------------------------------------------------------
(* C18 *)

\* C18: once transcribe_media_file has routed its input, exactly one stage
\* function has been called: extract_audio_from_video when the lower-cased
\* extension is one of .mp4 .avi .mkv .mov .wmv, convert_audio_to_wav for
\* every other extension; before that none has been called.
C18_ExactlyOneStage ==
    IF pc \in {"prompt", "tmf_start"}
    THEN stagesCalled = {}
    ELSE stagesCalled =
            IF Lower(filename_ext) \in {".mp4", ".avi", ".mkv", ".mov", ".wmv"}
            THEN {"extract"}
            ELSE {"convert"}

\* an upper-case video extension went through the extraction only
C18_Witness ==
    /\ pc = "done"
    /\ filename_ext = ".MKV"
    /\ stagesCalled = {"extract"}
    /\ calls # <<>>

----------------------------------------------------------------------------
(* C19 *)

\* the lower-cased extension is one of the recognised media extensions
Recognised ==
    Lower(filename_ext) \in {".mp4", ".avi", ".mkv", ".mov", ".wmv",
                             ".mp3", ".wav", ".flac", ".m4a", ".aac"}

\* C19 as stated: transcription has started only for an existing file whose
\* extension is recognised or for which the answer to the warning was 'y';
\* any other answer leaves the program at the prompt.
C19_StartsOnlyOnLowercaseY ==
    pc # "prompt" => (is_file /\ (Recognised \/ response = "y"))

\* C19 amended: transcription has started only for an existing file whose
\* extension is recognised or for which the answer to the warning was 'y'
\* or 'Y'; a line that was typed and left the program at the prompt named a
\* missing file, or an unrecognised extension with another answer; and at
\* the prompt transcribe_media_file has not been called.
C19_StartsOnlyIfConfirmed ==
    /\ pc # "prompt" => (is_file /\ (Recognised \/ response \in {"y", "Y"}))
    /\ (pc = "prompt" /\ filename_ext # NoExt)
         => (~is_file \/ (~Recognised /\ response \notin {"y", "Y"}))
    /\ pc = "prompt" => (stagesCalled = {} /\ calls = <<>> /\ created = {})

\* an unrecognised extension confirmed with 'Y' was transcribed
C19_Witness ==
    /\ pc = "done"
    /\ filename_ext = ".ogg"
    /\ response = "Y"
    /\ calls # <<>>

----------------------------------------------------------------------------
(* C20 *)

\* the steps of one run of transcribe_media_file
RunStep ==
    \/ ExtractAudioFromVideo
    \/ ConvertAudioToWav
    \/ TranscribeAudioFileStart
    \/ SplitAudioFile
    \/ CallGoogle
    \/ CallCloud
    \/ ChunkLoopBody
    \/ SingleReturn
    \/ Finally

\* the program is sequential: once the pending external call has returned,
\* the next step of the run is taken
FairSpec == Spec /\ WF_vars(RunStep)

\* number of calls made to provider pr on waveform p
CallCount(p, pr) ==
    Cardinality({j \in DOMAIN calls : calls[j].path = p /\ calls[j].provider = pr})

\* number of waveforms handed to the provider chain in this run
NumWaveforms == IF chunked /\ splitOutcome # "none" THEN Len(chunks) ELSE 1

\* no provider is called twice on a waveform, the provider chain has
\* returned at most once per waveform, at most 2N provider calls are made
AtMostOncePerChunk ==
    /\ \A j \in DOMAIN calls :
          /\ CallCount(calls[j].path, "google") <= 1
          /\ CallCount(calls[j].path, "cloud") <= 1
    /\ Len(results) <= NumWaveforms
    /\ Len(calls) <= 2 * NumWaveforms

\* C20: there are no retries (each provider is called at most once per
\* chunk, the provider chain at most once per chunk, at most 2N calls in a
\* run with N chunks), and a run of transcribe_media_file that has started
\* ends: it returns or an exception leaves it.
C20_NoRetriesAndTerminates ==
    /\ []AtMostOncePerChunk
    /\ (pc = "tmf_start") ~> (pc \in {"done", "raised"})

\* a run over several chunks that made both provider calls on every chunk
\* and returned
C20_Witness ==
    /\ pc = "done"
    /\ chunked
    /\ Len(chunks) >= 2
    /\ Len(calls) = 2 * Len(chunks)

====
